---------------------------- MODULE Spec2Model ----------------------------
(***************************************************************************)
(* Model of the Excel -> CiliumNetworkPolicy converter                     *)
(* (src/converter_03_07_2025.js, the latest of the script versions).       *)
(*                                                                         *)
(* JavaScript strings are TLA+ strings; characters are strings of length   *)
(* one.  Two stand-in characters are used for code points that cannot be   *)
(* written in a module:                                                    *)
(*   "@"  a Cyrillic letter inside the class [A-YAa-yaYOyo] that validate  *)
(*        tests (U+0410..U+044F, U+0401, U+0451), for example U+044F;      *)
(*   "~"  a Cyrillic letter outside that class, for example U+0456         *)
(*        (CYRILLIC SMALL LETTER BYELORUSSIAN-UKRAINIAN I).                *)
(* JavaScript objects are sequences of <<key, value>> pairs in the         *)
(* enumeration order of the language (OrdinaryOwnPropertyKeys).            *)
(***************************************************************************)
EXTENDS Naturals, Sequences, FiniteSets, TLC

VARIABLES
    pc,           \* position of main(): which statement runs next
    file,         \* process.argv[2], as the kind of path it is
    defaultDocs,  \* the documents loaded from default.yaml
    sheet,        \* the rows sheet_to_json returned: <<header cell, data rows>>
    parsed,       \* what parseExcel returned: namespace, groups, entries, missingNums
    badRows,      \* row numbers validate printed in its Cyrillic error
    dups,         \* duplicate pairings validate printed
    allDocs,      \* the document list handed to yaml.dump
    outExists,    \* fs.existsSync(out) at the overwrite gate
    answer,       \* the operator's response to the prompt
    outFile,      \* content of <namespace>.yaml
    exitCode,     \* exit status of the process
    upc,          \* position of the single-row harness
    urow,         \* the sheet row given to the harness
    udet,         \* detectType's result for the row's counterpart cell
    urule,        \* makeRule's result for the row's entry
    ulabels       \* splitLabels' result for the row's counterpart cell

vars == <<pc, file, defaultDocs, sheet, parsed, badRows, dups, allDocs,
          outExists, answer, outFile, exitCode, upc, urow, udet, urule, ulabels>>

mainVars == <<pc, file, defaultDocs, sheet, parsed, badRows, dups, allDocs,
              outExists, answer, outFile, exitCode>>

unitVars == <<upc, urow, udet, urule, ulabels>>

-----------------------------------------------------------------------------
(* Bounds of the model *)

MaxRows == 2      \* data rows in a sheet
MaxPieces == 3    \* pieces a generated cell is concatenated from

\* index of the first data row in the array of sheet rows
FirstDataIndex == 2

-----------------------------------------------------------------------------
(* Characters and strings *)

Null == [null |-> TRUE]

\* A value that may be undefined (a hole of a sheet row, a destructured
\* variable) is <<>> when undefined and <<v>> when it is the string v.
Undefined == <<>>
Def(v) == <<v>>

\* truthiness of such a value: neither undefined nor ''
Truthy(x) == x /= Undefined /\ x[1] /= ""

\* String(x)
ToStr(x) == IF x = Undefined THEN "undefined" ELSE x[1]

\* x || ''
OrEmpty(x) == IF Truthy(x) THEN x[1] ELSE ""

Ch(s, i) == SubSeq(s, i, i)

LowerLetters == "abcdefghijklmnopqrstuvwxyz"
UpperLetters == "ABCDEFGHIJKLMNOPQRSTUVWXYZ"

Digits == {"0", "1", "2", "3", "4", "5", "6", "7", "8", "9"}
LowerSet == {Ch(LowerLetters, i) : i \in 1..26}
UpperSet == {Ch(UpperLetters, i) : i \in 1..26}

\* /[a-zA-Z]/
IsAsciiLetter(c) == c \in LowerSet \cup UpperSet

\* the white space String.prototype.trim removes (of the characters modelled)
WhiteSpace == {" ", "\n", "\r", "\t"}

\* the character class of validate's regular expression, on one character
IsCyrillicClass(c) == c = "@"

\* a letter of the Cyrillic script (Unicode Script=Cyrillic)
IsCyrillicScript(c) == c \in {"@", "~"}

Includes(s, c) == \E i \in 1..Len(s) : Ch(s, i) = c

RECURSIVE StartsWith(_, _)
StartsWith(s, p) ==
    IF p = "" THEN TRUE
    ELSE IF s = "" THEN FALSE
    ELSE Head(s) = Head(p) /\ StartsWith(Tail(s), Tail(p))

RECURSIVE TrimStart(_)
TrimStart(s) ==
    IF s = "" THEN ""
    ELSE IF Head(s) \in WhiteSpace THEN TrimStart(Tail(s))
    ELSE s

RECURSIVE TrimEnd(_)
TrimEnd(s) ==
    IF s = "" THEN ""
    ELSE IF Ch(s, Len(s)) \in WhiteSpace THEN TrimEnd(SubSeq(s, 1, Len(s) - 1))
    ELSE s

\* String.prototype.trim
Trim(s) == TrimEnd(TrimStart(s))

IndexIn(letters, c) == CHOOSE i \in 1..26 : Ch(letters, i) = c

LowerChar(c) == IF c \in UpperSet THEN Ch(LowerLetters, IndexIn(UpperLetters, c)) ELSE c
UpperChar(c) == IF c \in LowerSet THEN Ch(UpperLetters, IndexIn(LowerLetters, c)) ELSE c

RECURSIVE ToLowerCase(_)
ToLowerCase(s) == IF s = "" THEN "" ELSE LowerChar(Head(s)) \o ToLowerCase(Tail(s))

RECURSIVE ToUpperCase(_)
ToUpperCase(s) == IF s = "" THEN "" ELSE UpperChar(Head(s)) \o ToUpperCase(Tail(s))

\* index of the first character at or after i that is not in seps
RECURSIVE SkipRun(_, _, _)
SkipRun(s, seps, i) ==
    IF i <= Len(s) /\ Ch(s, i) \in seps THEN SkipRun(s, seps, i + 1) ELSE i

\* s.split(/[seps]+/): a run of separators is one separator
RECURSIVE SplitRunsFrom(_, _, _, _)
SplitRunsFrom(s, seps, i, cur) ==
    IF i > Len(s) THEN <<cur>>
    ELSE IF Ch(s, i) \in seps
         THEN <<cur>> \o SplitRunsFrom(s, seps, SkipRun(s, seps, i), "")
         ELSE SplitRunsFrom(s, seps, i + 1, cur \o Ch(s, i))

SplitRuns(s, seps) == SplitRunsFrom(s, seps, 1, "")

\* s.split(c) for a one-character string c: every c separates
RECURSIVE SplitEachFrom(_, _, _, _)
SplitEachFrom(s, c, i, cur) ==
    IF i > Len(s) THEN <<cur>>
    ELSE IF Ch(s, i) = c
         THEN <<cur>> \o SplitEachFrom(s, c, i + 1, "")
         ELSE SplitEachFrom(s, c, i + 1, cur \o Ch(s, i))

SplitEach(s, c) == SplitEachFrom(s, c, 1, "")

\* parts.join(sep)
RECURSIVE Join(_, _)
Join(parts, sep) ==
    IF parts = <<>> THEN ""
    ELSE IF Len(parts) = 1 THEN parts[1]
    ELSE parts[1] \o sep \o Join(Tail(parts), sep)

\* array.map(s => s.trim())
MapTrim(parts) == [i \in 1..Len(parts) |-> Trim(parts[i])]

\* array.filter(Boolean) on strings
RECURSIVE FilterBoolean(_)
FilterBoolean(parts) ==
    IF parts = <<>> THEN <<>>
    ELSE IF Head(parts) /= "" THEN <<Head(parts)>> \o FilterBoolean(Tail(parts))
    ELSE FilterBoolean(Tail(parts))

\* array.filter(s => s.includes(':'))
RECURSIVE FilterHasColon(_)
FilterHasColon(parts) ==
    IF parts = <<>> THEN <<>>
    ELSE IF Includes(Head(parts), ":") THEN <<Head(parts)>> \o FilterHasColon(Tail(parts))
    ELSE FilterHasColon(Tail(parts))

\* /^\d+$/
AllDigits(s) == s /= "" /\ \A i \in 1..Len(s) : Ch(s, i) \in Digits

\* a pattern that accepts three octets as well
IsBareQuad_threeOctets(s) ==
    LET octets == SplitEach(s, ".")
    IN  Len(octets) \in {3, 4} /\ \A i \in 1..Len(octets) : AllDigits(octets[i])

\* /^\d+\.\d+\.\d+\.\d+$/
IsBareQuad(s) ==
    LET octets == SplitEach(s, ".")
    IN  Len(octets) = 4 /\ \A i \in 1..4 : AllDigits(octets[i])

\* /^\d+\.\d+\.\d+\.\d+\/\d+$/
IsPrefixedQuad(s) ==
    LET halves == SplitEach(s, "/")
    IN  Len(halves) = 2 /\ IsBareQuad(halves[1]) /\ AllDigits(halves[2])

\* /^\d+\.\d+\.\d+\.\d+(?:\/\d+)?$/
IsQuadOptPrefix(s) == IsBareQuad(s) \/ IsPrefixedQuad(s)

-----------------------------------------------------------------------------
(* JavaScript objects with string keys *)

RECURSIVE ToNumber(_)
ToNumber(s) ==
    IF s = "" THEN 0
    ELSE 10 * ToNumber(SubSeq(s, 1, Len(s) - 1))
         + (CHOOSE d \in 0..9 : Ch("0123456789", d + 1) = Ch(s, Len(s)))

\* a canonical array index: such keys enumerate first, in ascending order
\* (ten-digit keys up to 4294967294 are indices too; no key of the model is
\* that long)
IsArrayIndex(k) ==
    /\ AllDigits(k)
    /\ (Len(k) = 1 \/ Head(k) /= "0")
    /\ Len(k) <= 9

ObjKeys(o) == [i \in 1..Len(o) |-> o[i][1]]
ObjValues(o) == [i \in 1..Len(o) |-> o[i][2]]
ObjHas(o, k) == \E i \in 1..Len(o) : o[i][1] = k
ObjGet(o, k) == o[CHOOSE i \in 1..Len(o) : o[i][1] = k][2]

\* position at which a new key k enters the enumeration order of o
ObjInsertAt(o, k) ==
    IF IsArrayIndex(k)
    THEN 1 + Cardinality({i \in 1..Len(o) :
                 IsArrayIndex(o[i][1]) /\ ToNumber(o[i][1]) < ToNumber(k)})
    ELSE Len(o) + 1

\* o[k] = v
ObjSet(o, k, v) ==
    IF ObjHas(o, k)
    THEN [i \in 1..Len(o) |-> IF o[i][1] = k THEN <<k, v>> ELSE o[i]]
    ELSE LET at == ObjInsertAt(o, k)
         IN  SubSeq(o, 1, at - 1) \o <<<<k, v>>>> \o SubSeq(o, at, Len(o))

\* { ...a, ...b }: the properties of b assigned onto a, in b's order
RECURSIVE ObjAssign(_, _)
ObjAssign(a, b) ==
    IF b = <<>> THEN a
    ELSE ObjAssign(ObjSet(a, b[1][1], b[1][2]), Tail(b))

-----------------------------------------------------------------------------
(* Utilities of the converter *)

\* the reduce callback of splitLabels: o[k.trim()] = v.join(':').trim()
RECURSIVE LabelsReduce(_, _)
LabelsReduce(o, segs) ==
    IF segs = <<>> THEN o
    ELSE LET kv == SplitEach(Head(segs), ":")
             k  == Trim(kv[1])
             v  == Trim(Join(Tail(kv), ":"))
         IN  LabelsReduce(ObjSet(o, k, v), Tail(segs))

\* splitLabels without the filter for ':'
splitLabels_keepAll(raw) ==
    LabelsReduce(<<>>, MapTrim(SplitRuns(raw, {"\n", ","})))

\* splitLabels that separates segments at commas only
splitLabels_commaOnly(raw) ==
    LabelsReduce(<<>>, FilterHasColon(MapTrim(SplitRuns(raw, {","}))))

splitLabels(raw) ==
    LabelsReduce(<<>>, FilterHasColon(MapTrim(SplitRuns(raw, {"\n", ","}))))

\* it.includes('/') ? it : `${it}/32`
WithPrefix32(it) == IF Includes(it, "/") THEN it ELSE it \o "/32"

\* detectType with the list case taken for a single item too
detectType_anyLength(v0) ==
    LET v      == Trim(v0)
        items  == FilterBoolean(MapTrim(SplitRuns(v, {"\r", "\n", ","})))
        allIPs == \A i \in 1..Len(items) : IsQuadOptPrefix(items[i])
    IN  IF v = "" THEN [type |-> "empty", value |-> Null]
        ELSE IF allIPs
        THEN [type |-> "cidrList",
              value |-> [i \in 1..Len(items) |-> WithPrefix32(items[i])]]
        ELSE IF IsPrefixedQuad(v) THEN [type |-> "cidr", value |-> v]
        ELSE IF IsBareQuad(v) THEN [type |-> "cidr", value |-> v \o "/32"]
        ELSE IF (\E i \in 1..Len(v) : IsAsciiLetter(Ch(v, i))) /\ Includes(v, ".")
        THEN [type |-> "fqdn", value |-> ToLowerCase(v)]
        ELSE [type |-> "label", value |-> v]

detectType(v0) ==
    LET v      == Trim(v0)
        items  == FilterBoolean(MapTrim(SplitRuns(v, {"\r", "\n", ","})))
        allIPs == \A i \in 1..Len(items) : IsQuadOptPrefix(items[i])
    IN  IF v = "" THEN [type |-> "empty", value |-> Null]
        ELSE IF allIPs /\ Len(items) > 1
        THEN [type |-> "cidrList",
              value |-> [i \in 1..Len(items) |-> WithPrefix32(items[i])]]
        ELSE IF IsPrefixedQuad(v) THEN [type |-> "cidr", value |-> v]
        ELSE IF IsBareQuad(v) THEN [type |-> "cidr", value |-> v \o "/32"]
        ELSE IF (\E i \in 1..Len(v) : IsAsciiLetter(Ch(v, i))) /\ Includes(v, ".")
        THEN [type |-> "fqdn", value |-> ToLowerCase(v)]
        ELSE [type |-> "label", value |-> v]

\* RuleCell with the two sides exchanged: the group key's cell
RuleCell_groupKey(e) == IF e.direction = "ingress" THEN e.destLabel ELSE e.sourceLabel

\* the selector cell of an entry: the source of an ingress rule, the
\* destination of any other
RuleCell(e) == IF e.direction = "ingress" THEN e.sourceLabel ELSE e.destLabel

RulePrefix(e) == IF e.direction = "ingress" THEN "from" ELSE "to"

\* the default branch of makeRule's switch: the labels of a label cell
CellLabels(cell) ==
    IF Includes(cell, "/") /\ ~StartsWith(cell, "app.kubernetes.io/")
    THEN LET parts == SplitEach(cell, "/")
         IN  ObjAssign(<<<<"io.kubernetes.pod.namespace", Trim(parts[1])>>>>,
                       splitLabels(parts[2]))
    ELSE splitLabels(cell)

\* the ports block of makeRule; port and protocol may be undefined
PortsArray(port, protocol) ==
    LET portList == FilterBoolean(MapTrim(SplitRuns(ToStr(port), {"\r", "\n", ","})))
    IN  [i \in 1..Len(portList) |->
            IF Truthy(protocol) /\ ToUpperCase(protocol[1]) /= "ANY"
            THEN [port |-> portList[i], protocol |-> ToUpperCase(protocol[1])]
            ELSE [port |-> portList[i]]]

makeRule(e) ==
    LET prefix == RulePrefix(e)
        cell   == RuleCell(e)
        det    == IF Truthy(cell) THEN detectType(cell[1])
                  ELSE [type |-> "none", value |-> Null]
        r1     == IF det.type = "fqdn"
                  THEN ObjSet(<<>>, prefix \o "FQDNs", <<[matchName |-> det.value]>>)
                  ELSE IF det.type = "cidrList"
                  THEN ObjSet(<<>>, prefix \o "CIDR", det.value)
                  ELSE IF det.type = "cidr"
                  THEN ObjSet(<<>>, prefix \o "CIDR", <<det.value>>)
                  ELSE <<>>
        labels == IF Truthy(cell) /\ det.type \notin {"fqdn", "cidrList", "cidr"}
                  THEN CellLabels(cell[1])
                  ELSE <<>>
        r2     == IF Len(labels) > 0
                  THEN ObjSet(r1, prefix \o "Endpoints", <<[matchLabels |-> labels]>>)
                  ELSE r1
    IN  ObjSet(r2, "toPorts", <<[ports |-> PortsArray(e.port, e.protocol)]>>)

-----------------------------------------------------------------------------
(* parseExcel *)

\* A sheet row is six cells, columns A..F, each undefined (an empty cell is
\* a hole of the array sheet_to_json returns) or a string.

\* row.map(c => String(c||'').trim()): holes stay holes
RowCells(row) ==
    [c \in 1..6 |-> IF row[c] = Undefined THEN Undefined ELSE Def(Trim(OrEmpty(row[c])))]

\* row.slice(1,6).some(c => c && String(c).trim())
HasData(row) == \E c \in 2..6 : Truthy(row[c]) /\ Trim(row[c][1]) /= ""

\* dirRaw.toLowerCase() throws a TypeError when column D is a hole
DirectionThrows(row) == RowCells(row)[4] = Undefined

\* the entry of the row at index i of the sheet; the row has a direction
RowEntry(row, i) ==
    LET cells     == RowCells(row)
        groupKey  == cells[3]
        direction == ToLowerCase(cells[4][1])
        other     == cells[5]
    IN  [protocol    |-> cells[2],
         sourceLabel |-> IF direction = "ingress" THEN other ELSE groupKey,
         destLabel   |-> IF direction = "ingress" THEN groupKey ELSE other,
         direction   |-> direction,
         port        |-> cells[6],
         rowNum      |-> i + 1]

\* the property key parseExcel files the row under: groups[groupKey]
RowGroupKey(row) == ToStr(RowCells(row)[3])

\* the loop of parseExcel over the data rows from position k on; acc holds
\* groups, entries, missingNums and whether a TypeError was thrown
RECURSIVE ParseLoop(_, _, _)
ParseLoop(rows, k, acc) ==
    IF k > Len(rows) \/ acc.threw THEN acc
    ELSE LET row  == rows[k]
             i    == FirstDataIndex + k - 1
             nums == IF HasData(row) /\ ~Truthy(row[1])
                     THEN Append(acc.missingNums, i + 1)
                     ELSE acc.missingNums
         IN  IF ~HasData(row) THEN ParseLoop(rows, k + 1, [acc EXCEPT !.missingNums = nums])
             ELSE IF DirectionThrows(row) THEN [acc EXCEPT !.missingNums = nums, !.threw = TRUE]
             ELSE LET e   == RowEntry(row, i)
                      key == RowGroupKey(row)
                      old == IF ObjHas(acc.groups, key) THEN ObjGet(acc.groups, key) ELSE <<>>
                  IN  ParseLoop(rows, k + 1,
                        [acc EXCEPT !.missingNums = nums,
                                    !.entries = Append(acc.entries, e),
                                    !.groups = ObjSet(acc.groups, key, Append(old, e))])

\* String(rows[1]?.[0]||'').trim()
NsRaw(sh) == Trim(OrEmpty(sh.header))

\* nsRaw.split(':').slice(1).join(':').trim()
Namespace(sh) == Trim(Join(Tail(SplitEach(NsRaw(sh), ":")), ":"))

\* parseExcel throws: the header has no ':' or a data row has no direction
ParseThrows(sh) ==
    \/ ~Includes(NsRaw(sh), ":")
    \/ ParseLoop(sh.rows, 1,
           [groups |-> <<>>, entries |-> <<>>, missingNums |-> <<>>, threw |-> FALSE]).threw

\* what parseExcel returns when it does not throw
parseExcel(sh) ==
    LET acc == ParseLoop(sh.rows, 1,
                   [groups |-> <<>>, entries |-> <<>>, missingNums |-> <<>>, threw |-> FALSE])
    IN  [namespace   |-> Namespace(sh),
         groups      |-> acc.groups,
         entries     |-> acc.entries,
         missingNums |-> acc.missingNums]

-----------------------------------------------------------------------------
(* validate *)

HasCyrillicClass(str) == \E i \in 1..Len(str) : IsCyrillicClass(Ch(str, i))

\* an undefined value written as '' (Array.prototype.join, NaN + undefined)
JoinStr(x) == IF x = Undefined THEN "" ELSE x[1]

\* e.sourceLabel + e.destLabel + e.protocol + e.direction + e.port, added
\* from the left: undefined + undefined is the number NaN, which stays NaN
\* when a further undefined is added and is written "NaN" before a string
EntryText(e) ==
    LET front == IF e.sourceLabel = Undefined /\ e.destLabel = Undefined
                 THEN "NaN" \o JoinStr(e.protocol)
                 ELSE ToStr(e.sourceLabel) \o ToStr(e.destLabel) \o ToStr(e.protocol)
    IN  front \o e.direction \o ToStr(e.port)

\* a filter that keeps no entry
BadRowNums_none(entries) == <<>>

\* the rowNum of the entries the Cyrillic filter keeps
RECURSIVE BadRowNums(_)
BadRowNums(entries) ==
    IF entries = <<>> THEN <<>>
    ELSE IF HasCyrillicClass(EntryText(Head(entries)))
         THEN <<Head(entries).rowNum>> \o BadRowNums(Tail(entries))
         ELSE BadRowNums(Tail(entries))

\* the key of the duplicate check
DupKey(e) ==
    Join(<<e.direction, JoinStr(e.sourceLabel), JoinStr(e.destLabel), JoinStr(e.port),
           ToUpperCase(IF Truthy(e.protocol) THEN e.protocol[1] ELSE "ANY")>>, "|")

\* entries.forEach of validate: seen maps a key to the first rowNum, dups
\* collects the pairings <<first, duplicate>>
RECURSIVE DupScan(_, _, _)
DupScan(entries, seen, found) ==
    IF entries = <<>> THEN found
    ELSE LET e   == Head(entries)
             key == DupKey(e)
         IN  IF ObjHas(seen, key)
             THEN DupScan(Tail(entries), seen, Append(found, <<ObjGet(seen, key), e.rowNum>>))
             ELSE DupScan(Tail(entries), ObjSet(seen, key, e.rowNum), found)

Duplicates(entries) == DupScan(entries, <<>>, <<>>)

-----------------------------------------------------------------------------
(* buildPolicy and the document list *)

\* a forEach that puts in the egress list only the entries whose direction
\* is 'egress'
RECURSIVE RulesOf_namedOnly(_, _)
RulesOf_namedOnly(ents, wantIngress) ==
    IF ents = <<>> THEN <<>>
    ELSE IF Head(ents).direction = (IF wantIngress THEN "ingress" ELSE "egress")
         THEN <<makeRule(Head(ents))>> \o RulesOf_namedOnly(Tail(ents), wantIngress)
         ELSE RulesOf_namedOnly(Tail(ents), wantIngress)

\* ents.forEach: the rules of the entries whose direction is (ingress) or is
\* not (egress) 'ingress'
RECURSIVE RulesOf(_, _)
RulesOf(ents, wantIngress) ==
    IF ents = <<>> THEN <<>>
    ELSE IF (Head(ents).direction = "ingress") = wantIngress
         THEN <<makeRule(Head(ents))>> \o RulesOf(Tail(ents), wantIngress)
         ELSE RulesOf(Tail(ents), wantIngress)

\* a suffix made of the first label value only
PolicySuffix_firstValue(labels) ==
    IF Len(ObjValues(labels)) > 0 THEN ObjValues(labels)[1] ELSE "default"

\* Object.values(labels).length ? Object.values(labels).join('-') : 'default'
PolicySuffix(labels) ==
    IF Len(ObjValues(labels)) > 0 THEN Join(ObjValues(labels), "-") ELSE "default"

buildPolicy(ns, groupKey, ents) ==
    LET labels  == splitLabels(groupKey)
        suffix  == PolicySuffix(labels)
        name    == ns \o "-" \o suffix
        spec0   == <<<<"endpointSelector",
                       IF Len(ObjKeys(labels)) > 0 THEN <<<<"matchLabels", labels>>>>
                       ELSE <<>>>>>>
        ingress == RulesOf(ents, TRUE)
        egress  == RulesOf(ents, FALSE)
        spec1   == IF Len(ingress) > 0 THEN ObjSet(spec0, "ingress", ingress) ELSE spec0
        spec2   == IF Len(egress) > 0 THEN ObjSet(spec1, "egress", egress) ELSE spec1
    IN  <<<<"apiVersion", "cilium.io/v2">>,
          <<"kind", "CiliumNetworkPolicy">>,
          <<"metadata", <<<<"name", name>>, <<"namespace", ns>>>>>>,
          <<"spec", spec2>>>>

\* a rewrite that keeps the other fields of the loaded metadata
RewriteDefault_mergeMetadata(doc, ns) ==
    ObjSet(doc, "metadata",
           ObjSet(ObjSet(ObjGet(doc, "metadata"), "name", ns \o "-default"),
                  "namespace", ns))

\* { ...doc, metadata: { name: `${namespace}-default`, namespace } }
RewriteDefault(doc, ns) ==
    ObjSet(doc, "metadata", <<<<"name", ns \o "-default">>, <<"namespace", ns>>>>)

DefaultPolicies(docs, ns) == [i \in 1..Len(docs) |-> RewriteDefault(docs[i], ns)]

\* Object.entries(groups).map(([k, ents]) => buildPolicy(namespace, k, ents))
ExcelPolicies(groups, ns) ==
    [i \in 1..Len(groups) |-> buildPolicy(ns, groups[i][1], groups[i][2])]

\* an acceptance test that trims the answer first
Accepts_trimmed(ans) == StartsWith(ToLowerCase(Trim(ans)), "y")

\* ans.toLowerCase().startsWith('y')
Accepts(ans) == StartsWith(ToLowerCase(ans), "y")

-----------------------------------------------------------------------------
(* Inputs of a run *)

\* the documents of default.yaml: one with plain metadata, one whose
\* metadata carries a further field
Baseline ==
    << <<<<"apiVersion", "cilium.io/v2">>,
         <<"kind", "CiliumClusterwideNetworkPolicy">>,
         <<"metadata", <<<<"name", "allow-dns">>, <<"namespace", "default">>>>>>,
         <<"spec", <<<<"endpointSelector", <<>>>>,
                     <<"egress", <<[toPorts |-> <<[ports |-> <<[port |-> "53"]>>]>>]>>>>>>>>>>,
       <<<<"apiVersion", "cilium.io/v2">>,
         <<"kind", "CiliumNetworkPolicy">>,
         <<"metadata", <<<<"name", "default-deny">>,
                         <<"namespace", "kube-system">>,
                         <<"labels", <<<<"team", "net">>>>>>>>>>,
         <<"spec", <<<<"endpointSelector", <<>>>>>>>>>> >>

\* cell A2: absent, without ':', well formed
Headers == {Undefined, Def("billing"), Def("namespace:billing")}

BaseRow == <<Def("1"), Def("any"), Def("app:web"), Def("ingress"), Def("10.0.0.1"), Def("80")>>

\* the data rows of the sheets: the base row, the base row with one cell
\* changed, a row with column A only, and two rows that differ in columns
\* C and E
RowPool ==
    { BaseRow,
      [BaseRow EXCEPT ![1] = Undefined],
      [BaseRow EXCEPT ![1] = Def("1@")],
      [BaseRow EXCEPT ![2] = Undefined],
      [BaseRow EXCEPT ![3] = Undefined],
      [BaseRow EXCEPT ![3] = Def("7")],
      [BaseRow EXCEPT ![3] = Def("app:default")],
      [BaseRow EXCEPT ![3] = Def("app:web,tier:db")],
      [BaseRow EXCEPT ![4] = Def("Egress")],
      [BaseRow EXCEPT ![4] = Undefined],
      [BaseRow EXCEPT ![4] = Def(" ")],
      [BaseRow EXCEPT ![5] = Def("@")],
      [BaseRow EXCEPT ![5] = Def("~")],
      [BaseRow EXCEPT ![6] = Undefined],
      [BaseRow EXCEPT ![6] = Def(",")],
      <<Def("2"), Undefined, Undefined, Undefined, Undefined, Undefined>>,
      [BaseRow EXCEPT ![3] = Def("k:v"), ![5] = Def("a:b|c:d")],
      [BaseRow EXCEPT ![3] = Def("c:d|k:v"), ![5] = Def("a:b")] }

RECURSIVE SeqsUpTo(_, _)
SeqsUpTo(S, n) ==
    IF n = 0 THEN {<<>>}
    ELSE LET shorter == SeqsUpTo(S, n - 1)
         IN  shorter \cup {Append(q, x) : q \in shorter, x \in S}

Sheets == [header : Headers, rows : SeqsUpTo(RowPool, MaxRows)]

\* the operator's line at the overwrite prompt
Answers == {"y", "Yes", "n", "", " y"}

-----------------------------------------------------------------------------
(* The run: module load, then main() *)

unitIdle == upc = "idle" /\ urow = Null /\ udet = Null /\ urule = Null /\ ulabels = Null

Init ==
    /\ pc = "load" /\ file = "" /\ defaultDocs = <<>> /\ sheet = Null
    /\ parsed = Null /\ badRows = <<>> /\ dups = <<>> /\ allDocs = <<>>
    /\ outExists = "unknown" /\ answer = Undefined /\ outFile = Undefined
    /\ exitCode = Undefined
    /\ unitIdle

Exit(code) == pc' = "exit" /\ exitCode' = Def(code)

\* default.yaml is missing: the module throws while loading
LoadDefaultsThrows ==
    /\ pc = "load"
    /\ Exit(1)
    /\ UNCHANGED <<file, defaultDocs, sheet, parsed, badRows, dups, allDocs,
                   outExists, answer, outFile>>
    /\ UNCHANGED unitVars

LoadDefaults ==
    /\ pc = "load"
    /\ defaultDocs' = Baseline
    /\ pc' = "main"
    /\ UNCHANGED <<file, sheet, parsed, badRows, dups, allDocs, outExists, answer,
                   outFile, exitCode>>
    /\ UNCHANGED unitVars

\* no argument, an argument that does not end in .xlsx, a path that does
\* not exist
MainBadArgument ==
    /\ pc = "main"
    /\ file' \in {"", "rules.csv", "absent.xlsx"}
    /\ Exit(1)
    /\ UNCHANGED <<defaultDocs, sheet, parsed, badRows, dups, allDocs, outExists,
                   answer, outFile>>
    /\ UNCHANGED unitVars

MainArgument ==
    /\ pc = "main"
    /\ file' = "rules.xlsx"
    /\ pc' = "parse"
    /\ UNCHANGED <<defaultDocs, sheet, parsed, badRows, dups, allDocs, outExists,
                   answer, outFile, exitCode>>
    /\ UNCHANGED unitVars

ParseExcelThrows ==
    /\ pc = "parse"
    /\ \E sh \in Sheets : ParseThrows(sh) /\ sheet' = sh
    /\ Exit(1)
    /\ UNCHANGED <<file, defaultDocs, parsed, badRows, dups, allDocs, outExists,
                   answer, outFile>>
    /\ UNCHANGED unitVars

ParseExcelReturns ==
    /\ pc = "parse"
    /\ \E sh \in Sheets : ~ParseThrows(sh) /\ sheet' = sh /\ parsed' = parseExcel(sh)
    /\ pc' = "nums"
    /\ UNCHANGED <<file, defaultDocs, badRows, dups, allDocs, outExists, answer,
                   outFile, exitCode>>
    /\ UNCHANGED unitVars

MissingNumsExit ==
    /\ pc = "nums"
    /\ Len(parsed.missingNums) > 0
    /\ Exit(1)
    /\ UNCHANGED <<file, defaultDocs, sheet, parsed, badRows, dups, allDocs,
                   outExists, answer, outFile>>
    /\ UNCHANGED unitVars

MissingNumsPass ==
    /\ pc = "nums"
    /\ Len(parsed.missingNums) = 0
    /\ pc' = "validate"
    /\ UNCHANGED <<file, defaultDocs, sheet, parsed, badRows, dups, allDocs,
                   outExists, answer, outFile, exitCode>>
    /\ UNCHANGED unitVars

ValidateExit ==
    /\ pc = "validate"
    /\ Len(BadRowNums(parsed.entries)) > 0
    /\ badRows' = BadRowNums(parsed.entries)
    /\ Exit(1)
    /\ UNCHANGED <<file, defaultDocs, sheet, parsed, dups, allDocs, outExists,
                   answer, outFile>>
    /\ UNCHANGED unitVars

ValidatePass ==
    /\ pc = "validate"
    /\ Len(BadRowNums(parsed.entries)) = 0
    /\ dups' = Duplicates(parsed.entries)
    /\ pc' = "build"
    /\ UNCHANGED <<file, defaultDocs, sheet, parsed, badRows, allDocs, outExists,
                   answer, outFile, exitCode>>
    /\ UNCHANGED unitVars

BuildDocs ==
    /\ pc = "build"
    /\ allDocs' = DefaultPolicies(defaultDocs, parsed.namespace)
                    \o ExcelPolicies(parsed.groups, parsed.namespace)
    /\ pc' = "gate"
    /\ UNCHANGED <<file, defaultDocs, sheet, parsed, badRows, dups, outExists,
                   answer, outFile, exitCode>>
    /\ UNCHANGED unitVars

\* the output path does not exist: writeOut(), and main returns
GateWrite ==
    /\ pc = "gate"
    /\ outExists' = "no"
    /\ outFile' = Def(allDocs)
    /\ Exit(0)
    /\ UNCHANGED <<file, defaultDocs, sheet, parsed, badRows, dups, allDocs, answer>>
    /\ UNCHANGED unitVars

\* the output path exists: the question is asked
GatePrompt ==
    /\ pc = "gate"
    /\ outExists' = "yes"
    /\ pc' = "prompt"
    /\ UNCHANGED <<file, defaultDocs, sheet, parsed, badRows, dups, allDocs, answer,
                   outFile, exitCode>>
    /\ UNCHANGED unitVars

\* the callback of question()
Answer ==
    /\ pc = "prompt"
    /\ \E ans \in Answers :
          /\ answer' = Def(ans)
          /\ outFile' = IF Accepts(ans) THEN Def(allDocs) ELSE outFile
    /\ Exit(0)
    /\ UNCHANGED <<file, defaultDocs, sheet, parsed, badRows, dups, allDocs, outExists>>
    /\ UNCHANGED unitVars

Next ==
    \/ LoadDefaultsThrows \/ LoadDefaults
    \/ MainBadArgument \/ MainArgument
    \/ ParseExcelThrows \/ ParseExcelReturns
    \/ MissingNumsExit \/ MissingNumsPass
    \/ ValidateExit \/ ValidatePass
    \/ BuildDocs
    \/ GateWrite \/ GatePrompt
    \/ Answer

Spec == Init /\ [][Next]_vars

-----------------------------------------------------------------------------
(* Single-row harness: detectType and makeRule applied to one sheet row *)

\* a row whose six cells are all strings
StringRow(row) == [c \in 1..6 |-> Def(row[c])]

\* fragments that counterpart cells are concatenated from
Pieces ==
    {"10.0.0.1", "10.0.0.2/8", "10.0.1", ",", "\n", "\r", " ", ".", "/", ":",
     "Ab", "k:v"}

RECURSIVE CellsOf(_)
CellsOf(n) ==
    IF n = 0 THEN {""}
    ELSE LET shorter == CellsOf(n - 1)
         IN  shorter \cup {c \o p : c \in shorter, p \in Pieces}

\* rows with a generated counterpart cell, and rows that vary every column
UnitRows ==
    {<<"1", "tcp", "app:web", "ingress", c, "80">> : c \in CellsOf(MaxPieces)}
    \cup
    {<<"1", "tcp", "app:web", "egress", c, "80">> : c \in CellsOf(1)}
    \cup
    {<<"1", "tcp", "app:web", "ingress", c, "80">> :
        c \in {"prod/app:db", "prod/app:db/tier:x", "10.a.0.1", "frontend",
               "k:v\nx:y", "k:v,x:y,k:z", "app.kubernetes.io/name:x"}}
    \cup
    {<<"1", proto, gk, d, c, port>> :
        proto \in {"", "any", "tcp"},
        gk \in {"", "app:web", "10.0.0.9"},
        d \in {"ingress", "Egress", ""},
        c \in {"", "10.0.0.1", "Ab.c", "k:v", "Ab"},
        port \in {"", "80", "80,443", ","}}

mainIdle ==
    /\ pc = "idle" /\ file = "" /\ defaultDocs = <<>> /\ sheet = Null
    /\ parsed = Null /\ badRows = <<>> /\ dups = <<>> /\ allDocs = <<>>
    /\ outExists = "unknown" /\ answer = Undefined /\ outFile = Undefined
    /\ exitCode = Undefined

InitRule ==
    /\ mainIdle
    /\ urow \in UnitRows
    /\ upc = "row"
    /\ udet = Null
    /\ urule = Null
    /\ ulabels = Null

\* detectType(other) on the row's counterpart cell (column E)
UDetect ==
    /\ upc = "row"
    /\ udet' = detectType(urow[5])
    /\ upc' = "detected"
    /\ UNCHANGED <<urow, urule, ulabels>>
    /\ UNCHANGED mainVars

\* makeRule(e) on the entry parseExcel builds from the row
UMakeRule ==
    /\ upc = "detected"
    /\ urule' = makeRule(RowEntry(StringRow(urow), FirstDataIndex))
    /\ upc' = "ruled"
    /\ UNCHANGED <<urow, udet, ulabels>>
    /\ UNCHANGED mainVars

\* splitLabels(cell) on the row's counterpart cell as parseExcel trims it
USplitLabels ==
    /\ upc = "ruled"
    /\ ulabels' = splitLabels(Trim(urow[5]))
    /\ upc' = "split"
    /\ UNCHANGED <<urow, udet, urule>>
    /\ UNCHANGED mainVars

NextRule == UDetect \/ UMakeRule \/ USplitLabels

SpecRule == InitRule /\ [][NextRule]_vars

-----------------------------------------------------------------------------
(* C1: the decision order of the cell classifier *)

\* a dotted quad, recognised by one left-to-right scan: `dots` separators
\* passed so far, `open` when the current octet has no digit yet
RECURSIVE C1_ScanQuad(_, _, _)
C1_ScanQuad(s, dots, open) ==
    IF s = "" THEN dots = 3 /\ ~open
    ELSE IF Head(s) \in Digits THEN C1_ScanQuad(Tail(s), dots, FALSE)
    ELSE IF Head(s) = "." THEN ~open /\ dots < 3 /\ C1_ScanQuad(Tail(s), dots + 1, TRUE)
    ELSE FALSE

C1_BareQuad(s) == C1_ScanQuad(s, 0, TRUE)

C1_PrefixedQuad(s) ==
    \E k \in 1..Len(s) :
        /\ Ch(s, k) = "/"
        /\ C1_BareQuad(SubSeq(s, 1, k - 1))
        /\ k < Len(s)
        /\ \A j \in (k + 1)..Len(s) : Ch(s, j) \in Digits

\* the comma/newline-separated items of a cell
C1_Items(v) == FilterBoolean(MapTrim(SplitRuns(v, {",", "\n", "\r"})))

C1_IsList(v) ==
    /\ Len(C1_Items(v)) > 1
    /\ \A i \in 1..Len(C1_Items(v)) :
          C1_BareQuad(C1_Items(v)[i]) \/ C1_PrefixedQuad(C1_Items(v)[i])

C1_HasLetter(v) == \E i \in 1..Len(v) : Ch(v, i) \in LowerSet \cup UpperSet

\* C1: for the trimmed cell v the classifier answers with the first case
\* that matches, in the order Empty, CIDRList (more than one item, every
\* item a dotted quad with optional prefix length, bare items given /32),
\* CIDRSingle with explicit prefix (unchanged), CIDRSingle bare (/32
\* appended), FQDN (a letter and a '.', lowercased), LabelSet.
C1_FirstMatchWins ==
    upc \in {"detected", "ruled"} =>
        LET v == Trim(urow[5])
        IN  IF v = "" THEN udet.type = "empty"
            ELSE IF C1_IsList(v)
            THEN /\ udet.type = "cidrList"
                 /\ Len(udet.value) = Len(C1_Items(v))
                 /\ \A i \in 1..Len(udet.value) :
                       udet.value[i] = IF C1_BareQuad(C1_Items(v)[i])
                                       THEN C1_Items(v)[i] \o "/32"
                                       ELSE C1_Items(v)[i]
            ELSE IF C1_PrefixedQuad(v) THEN udet.type = "cidr" /\ udet.value = v
            ELSE IF C1_BareQuad(v) THEN udet.type = "cidr" /\ udet.value = v \o "/32"
            ELSE IF C1_HasLetter(v) /\ Includes(v, ".")
            THEN udet.type = "fqdn" /\ udet.value = ToLowerCase(v)
            ELSE udet.type = "label" /\ udet.value = v

\* a list of a bare and a prefixed address was classified
C1_Witness ==
    /\ upc = "detected"
    /\ udet.type = "cidrList"
    /\ udet.value = <<"10.0.0.1/32", "10.0.0.2/8">>

-----------------------------------------------------------------------------
(* C5: cells made only of key:value segments *)

C5_Segments(cell) == MapTrim(SplitRuns(cell, {",", "\n"}))

C5_KVOnly(cell) ==
    /\ cell /= ""
    /\ \A i \in 1..Len(C5_Segments(cell)) : Includes(C5_Segments(cell)[i], ":")

C5_FirstColon(seg) == CHOOSE k \in 1..Len(seg) :
    Ch(seg, k) = ":" /\ \A j \in 1..(k - 1) : Ch(seg, j) /= ":"

C5_Key(seg) == Trim(SubSeq(seg, 1, C5_FirstColon(seg) - 1))
C5_Value(seg) == Trim(SubSeq(seg, C5_FirstColon(seg) + 1, Len(seg)))

\* the key/value pairs of the segments, a repeated key keeping its last value
C5_Pairs(cell) ==
    LET segs == C5_Segments(cell)
    IN  {<<C5_Key(segs[i]), C5_Value(segs[i])>> : i \in
            {i \in 1..Len(segs) :
                \A j \in (i + 1)..Len(segs) : C5_Key(segs[j]) /= C5_Key(segs[i])}}

C5_LabelSelector(cell) ==
    /\ udet.type = "label"
    /\ \E p \in {"from", "to"} :
          /\ ObjHas(urule, p \o "Endpoints")
          /\ LET labels == ObjGet(urule, p \o "Endpoints")[1].matchLabels
             IN  {labels[i] : i \in 1..Len(labels)} = C5_Pairs(cell)

\* C5 as stated: any cell made only of comma/newline-separated key:value
\* segments, whatever characters the keys and values contain, is classified
\* LabelSet and becomes an Endpoints selector whose matchLabels are exactly
\* the parsed pairs.
C5_AnyCharacters ==
    (upc = "ruled" /\ C5_KVOnly(Trim(urow[5]))) => C5_LabelSelector(Trim(urow[5]))

\* C5 amended: the same for cells that contain no '/' and do not contain
\* both an ASCII letter and a '.'.
C5_PlainCharacters ==
    (/\ upc = "ruled"
     /\ C5_KVOnly(Trim(urow[5]))
     /\ ~Includes(Trim(urow[5]), "/")
     /\ ~(C1_HasLetter(Trim(urow[5])) /\ Includes(Trim(urow[5]), ".")))
    => C5_LabelSelector(Trim(urow[5]))

\* a two-segment label cell was translated
C5_Witness ==
    /\ upc = "ruled"
    /\ Trim(urow[5]) = "k:v\nx:y"
    /\ ObjHas(urule, "fromEndpoints")
    /\ ObjGet(urule, "fromEndpoints")[1].matchLabels = <<<<"k", "v">>, <<"x", "y">>>>

-----------------------------------------------------------------------------
(* C7: one selector per fragment, named after the direction, taken from the
   counterpart cell *)

SelectorKeys == {p \o k : p \in {"from", "to"}, k \in {"Endpoints", "FQDNs", "CIDR"}}

\* the selector properties of a fragment, in order
RECURSIVE C7_Selectors(_)
C7_Selectors(r) ==
    IF r = <<>> THEN <<>>
    ELSE IF r[1][1] \in SelectorKeys THEN <<r[1]>> \o C7_Selectors(Tail(r))
    ELSE C7_Selectors(Tail(r))

C7_Direction(row) == ToLowerCase(Trim(row[4]))

\* C7: a fragment carries at most one selector; its name starts with 'from'
\* for an ingress row and with 'to' for an egress row; the selector does not
\* change when the row's group key does, and is absent when the counterpart
\* cell is empty.
C7_OneSelectorFromCounterpart ==
    upc = "ruled" =>
        LET sel == C7_Selectors(urule)
        IN  /\ Len(sel) <= 1
            /\ \A i \in 1..Len(sel) :
                  /\ C7_Direction(urow) = "ingress" => StartsWith(sel[i][1], "from")
                  /\ C7_Direction(urow) = "egress" => StartsWith(sel[i][1], "to")
            /\ \A g \in {"", "x:y", "10.0.0.9"} :
                  C7_Selectors(makeRule(RowEntry(StringRow([urow EXCEPT ![3] = g]),
                                                 FirstDataIndex))) = sel
            /\ Trim(urow[5]) = "" => sel = <<>>

\* an ingress row with a label group key produced a CIDR selector
C7_Witness ==
    /\ upc = "ruled"
    /\ urow[3] = "app:web"
    /\ C7_Direction(urow) = "ingress"
    /\ C7_Selectors(urule) = <<<<"fromCIDR", <<"10.0.0.1/32">>>>>>


-----------------------------------------------------------------------------
(* Observations of a run used by the claims below *)

\* the sheet has been read
SheetRead == sheet /= Null

\* the output file has been written
Written == outFile /= Undefined

\* the non-blank data rows, as positions in sheet.rows
NonBlankRows == {k \in 1..Len(sheet.rows) : HasData(sheet.rows[k])}

\* the 1-based sheet position of the data row k
RowPosition(k) == k + FirstDataIndex

\* the documents after the baseline documents
GroupDocs == SubSeq(allDocs, Len(defaultDocs) + 1, Len(allDocs))

\* the fragments of a document, ingress list first
DocRules(doc) ==
    LET sp == ObjGet(doc, "spec")
    IN  (IF ObjHas(sp, "ingress") THEN ObjGet(sp, "ingress") ELSE <<>>)
        \o (IF ObjHas(sp, "egress") THEN ObjGet(sp, "egress") ELSE <<>>)

-----------------------------------------------------------------------------
(* C2: every fragment has a non-empty ports list *)

\* C2: when the documents are assembled, every fragment of every group
\* document has at least one entry in its ports list (a row whose port
\* cell yields no item does not reach assembly).
C2_NonEmptyPorts ==
    \A d \in 1..Len(GroupDocs) :
        \A r \in 1..Len(DocRules(GroupDocs[d])) :
            Len(ObjGet(DocRules(GroupDocs[d])[r], "toPorts")[1].ports) > 0

-----------------------------------------------------------------------------
(* C3: the file is written only after the fatal checks passed *)

C3_HeaderParsed == sheet.header /= Undefined /\ Includes(sheet.header[1], ":")

C3_MissingNumber == \E k \in NonBlankRows : sheet.rows[k][1] = Undefined

\* a text field of a non-blank row holds a character of the class that
\* validate tests for
C3_Forbidden ==
    \E k \in NonBlankRows : \E c \in 2..6 :
        sheet.rows[k][c] /= Undefined /\ HasCyrillicClass(sheet.rows[k][c][1])

C3_Fatal == ~C3_HeaderParsed \/ C3_MissingNumber \/ C3_Forbidden

-----------------------------------------------------------------------------
(* C4: a Cyrillic character in any cell of a row aborts the run *)

\* the positions of the non-blank rows with a Cyrillic character in a cell
C4_CyrillicRows ==
    {RowPosition(k) : k \in {j \in NonBlankRows :
        \E c \in 1..6 : /\ sheet.rows[j][c] /= Undefined
                        /\ \E i \in 1..Len(sheet.rows[j][c][1]) :
                              IsCyrillicScript(Ch(sheet.rows[j][c][1], i))}}

\* C4: a run over a sheet with a row that holds a Cyrillic character ends
\* with a non-zero exit code and without writing; and the rows that the
\* run reports for Cyrillic characters are all such rows.
C4_CyrillicAborts ==
    /\ (SheetRead /\ pc = "exit" /\ C4_CyrillicRows /= {}) =>
          exitCode = Def(1) /\ ~Written
    /\ badRows /= <<>> => {badRows[i] : i \in 1..Len(badRows)} = C4_CyrillicRows

-----------------------------------------------------------------------------
(* C6: the duplicate pairings *)

\* the five fields of the signature, the protocol upper-cased with an
\* empty protocol read as ANY
C6_Signature(e) ==
    <<e.direction, JoinStr(e.sourceLabel), JoinStr(e.destLabel), JoinStr(e.port),
      ToUpperCase(IF Truthy(e.protocol) THEN e.protocol[1] ELSE "ANY")>>

\* the pairings <<first occurrence, later occurrence>> among the entries
\* from position j on
RECURSIVE C6_Pairings(_, _)
C6_Pairings(entries, j) ==
    IF j > Len(entries) THEN <<>>
    ELSE LET same == {i \in 1..(j - 1) : C6_Signature(entries[i]) = C6_Signature(entries[j])}
         IN  (IF same = {} THEN <<>>
              ELSE <<<<entries[CHOOSE i \in same : \A h \in same : i <= h].rowNum,
                       entries[j].rowNum>>>>)
             \o C6_Pairings(entries, j + 1)

\* C6: once validation has passed, the reported pairings are exactly, for
\* each row that repeats the signature of an earlier row, the pair of the
\* first row with that signature and the repeating row; and a run that
\* reported pairings ends with exit code 0.
C6_DuplicatePairings ==
    /\ pc \in {"build", "gate", "prompt", "exit"} /\ parsed /= Null /\ exitCode /= Def(1)
          => dups = C6_Pairings(parsed.entries, 1)
    /\ (pc = "exit" /\ dups /= <<>>) => exitCode = Def(0)

-----------------------------------------------------------------------------
(* C8: the order of the emitted documents *)

\* the group keys of the non-blank rows from position k on, each at its
\* first occurrence; seen holds the keys already met
RECURSIVE C8_FirstSeen(_, _, _)
C8_FirstSeen(rows, k, seen) ==
    IF k > Len(rows) THEN <<>>
    ELSE IF HasData(rows[k]) /\ RowGroupKey(rows[k]) \notin seen
         THEN <<RowGroupKey(rows[k])>>
                  \o C8_FirstSeen(rows, k + 1, seen \cup {RowGroupKey(rows[k])})
         ELSE C8_FirstSeen(rows, k + 1, seen)

\* C8: the emitted list is the baseline documents in baseline order, then
\* one document per group, in the order in which the group keys first
\* occur in the rows.
C8_EncounterOrder ==
    allDocs /= <<>> =>
        LET keys == C8_FirstSeen(sheet.rows, 1, {})
        IN  /\ Len(allDocs) = Len(defaultDocs) + Len(keys)
            /\ \A i \in 1..Len(defaultDocs) :
                  allDocs[i] = RewriteDefault(defaultDocs[i], parsed.namespace)
            /\ \A i \in 1..Len(keys) :
                  GroupDocs[i] = buildPolicy(parsed.namespace, keys[i],
                                             ObjGet(parsed.groups, keys[i]))

-----------------------------------------------------------------------------
(* C9: the rewrite of the baseline documents *)

\* C9 as stated: each emitted baseline document is the loaded document
\* with metadata.name and metadata.namespace set and every other field,
\* the other metadata fields included, as loaded; the loaded documents
\* are not changed.
C9_OnlyNameAndNamespace ==
    /\ defaultDocs /= <<>> => defaultDocs = Baseline
    /\ allDocs /= <<>> =>
          \A i \in 1..Len(defaultDocs) :
              LET loaded == ObjGet(defaultDocs[i], "metadata")
                  out    == ObjGet(allDocs[i], "metadata")
              IN  /\ ObjKeys(allDocs[i]) = ObjKeys(defaultDocs[i])
                  /\ \A k \in 1..Len(defaultDocs[i]) :
                        defaultDocs[i][k][1] /= "metadata" => allDocs[i][k] = defaultDocs[i][k]
                  /\ ObjGet(out, "name") = parsed.namespace \o "-default"
                  /\ ObjGet(out, "namespace") = parsed.namespace
                  /\ \A k \in 1..Len(loaded) :
                        loaded[k][1] \notin {"name", "namespace"} =>
                            ObjHas(out, loaded[k][1]) /\ ObjGet(out, loaded[k][1]) = loaded[k][2]

\* C9 amended: each emitted baseline document has the top-level fields of
\* the loaded document, each as loaded except metadata, which is exactly
\* name '<namespace>-default' and namespace; the loaded documents are not
\* changed.
C9_MetadataReplaced ==
    /\ defaultDocs /= <<>> => defaultDocs = Baseline
    /\ allDocs /= <<>> =>
          \A i \in 1..Len(defaultDocs) :
              /\ ObjKeys(allDocs[i]) = ObjKeys(defaultDocs[i])
              /\ \A k \in 1..Len(defaultDocs[i]) :
                    defaultDocs[i][k][1] /= "metadata" => allDocs[i][k] = defaultDocs[i][k]
              /\ ObjGet(allDocs[i], "metadata")
                    = <<<<"name", parsed.namespace \o "-default">>,
                        <<"namespace", parsed.namespace>>>>

\* the file was written from a baseline whose second document has a
\* metadata field besides name and namespace
C9_Witness ==
    /\ Written
    /\ Len(defaultDocs) = 2
    /\ ObjHas(ObjGet(defaultDocs[2], "metadata"), "labels")
    /\ ~ObjHas(ObjGet(outFile[1][2], "metadata"), "labels")

-----------------------------------------------------------------------------
(* C10: the overwrite gate *)

C10_StartsWithY(ans) == Len(ans) > 0 /\ Ch(ans, 1) \in {"y", "Y"}

\* C10: when the output path exists, the file is not written before the
\* answer, is written exactly when the answer starts with 'y' or 'Y', and
\* the run ends with exit code 0 either way; when the path does not exist
\* the file is written without a question.
C10_OverwriteGate ==
    /\ outExists = "yes" =>
          /\ answer = Undefined => ~Written /\ pc = "prompt"
          /\ answer /= Undefined =>
                /\ pc = "exit" /\ exitCode = Def(0)
                /\ Written <=> C10_StartsWithY(answer[1])
                /\ Written => outFile = Def(allDocs)
    /\ outExists = "no" =>
          /\ answer = Undefined
          /\ outFile = Def(allDocs)
          /\ pc = "exit" /\ exitCode = Def(0)
    /\ outExists = "unknown" => ~Written /\ answer = Undefined

\* the operator answered ' y' to the question and the file was left alone
C10_Witness ==
    /\ outExists = "yes"
    /\ answer = Def(" y")
    /\ pc = "exit" /\ exitCode = Def(0)
    /\ ~Written


-----------------------------------------------------------------------------
(* Where the fragment of a row is found in the assembled documents *)

\* the non-blank data rows in sheet order, as positions in sheet.rows
RECURSIVE DataRowsFrom(_)
DataRowsFrom(k) ==
    IF k > Len(sheet.rows) THEN <<>>
    ELSE IF HasData(sheet.rows[k]) THEN <<k>> \o DataRowsFrom(k + 1)
    ELSE DataRowsFrom(k + 1)

DataRows == DataRowsFrom(1)

\* the text of a cell, '' for a cell that is not there
CellText(k, c) == IF sheet.rows[k][c] = Undefined THEN "" ELSE Trim(sheet.rows[k][c][1])

RowIsIngress(k) == ToLowerCase(CellText(k, 4)) = "ingress"

RowIsEgress(k) == ToLowerCase(CellText(k, 4)) = "egress"

\* the document of the group that the row's group-key cell names
RowDoc(k) ==
    GroupDocs[CHOOSE i \in 1..Len(parsed.groups) :
                  parsed.groups[i][1] = RowGroupKey(sheet.rows[k])]

\* a list of the spec of a document, empty when the field is absent
SpecList(doc, field) ==
    IF ObjHas(ObjGet(doc, "spec"), field) THEN ObjGet(ObjGet(doc, "spec"), field) ELSE <<>>

\* the fragment of the j-th data row: in the list of its direction, after
\* the fragments of the earlier rows of the same group in that list
RowFragment(j) ==
    LET k     == DataRows[j]
        peers == {h \in 1..j :
                     /\ RowGroupKey(sheet.rows[DataRows[h]]) = RowGroupKey(sheet.rows[k])
                     /\ RowIsIngress(DataRows[h]) = RowIsIngress(k)}
    IN  SpecList(RowDoc(k), IF RowIsIngress(k) THEN "ingress" ELSE "egress")[Cardinality(peers)]

-----------------------------------------------------------------------------
(* C11: the ports block *)

\* the items of a port cell: cut at commas and line breaks, trimmed, the
\* empty ones left out
RECURSIVE C11_Items(_, _)
C11_Items(text, cur) ==
    IF text = ""
    THEN (IF Trim(cur) = "" THEN <<>> ELSE <<Trim(cur)>>)
    ELSE IF Head(text) \in {",", "\n", "\r"}
    THEN (IF Trim(cur) = "" THEN <<>> ELSE <<Trim(cur)>>) \o C11_Items(Tail(text), "")
    ELSE C11_Items(Tail(text), cur \o SubSeq(text, 1, 1))

\* the entry of one port item under the protocol cell of the row
C11_Entry(item, proto) ==
    IF proto = "" \/ ToUpperCase(proto) = "ANY"
    THEN [port |-> item]
    ELSE [port |-> item, protocol |-> ToUpperCase(proto)]

\* C11: in the assembled documents the ports block of the fragment of
\* every data row has one entry per item of the row's port cell, in cell
\* order, each with the upper-cased protocol of the row unless the
\* protocol cell is empty or ANY.
C11_PortsPerItem ==
    allDocs /= <<>> =>
        \A j \in 1..Len(DataRows) :
            LET items == C11_Items(CellText(DataRows[j], 6), "")
            IN  ObjGet(RowFragment(j), "toPorts")[1].ports
                  = [i \in 1..Len(items) |-> C11_Entry(items[i], CellText(DataRows[j], 2))]


-----------------------------------------------------------------------------
(* C12: splitLabels *)

\* the pieces of a text between commas and line feeds, read left to right
RECURSIVE C12_Cut(_, _)
C12_Cut(text, cur) ==
    IF text = "" THEN <<cur>>
    ELSE IF Head(text) \in {",", "\n"} THEN <<cur>> \o C12_Cut(Tail(text), "")
    ELSE C12_Cut(Tail(text), cur \o SubSeq(text, 1, 1))

\* the trimmed pieces that contain ':'
C12_Kept(cell) ==
    LET cut == C12_Cut(cell, "")
    IN  SelectSeq([i \in 1..Len(cut) |-> Trim(cut[i])],
                  LAMBDA seg : \E k \in 1..Len(seg) : Ch(seg, k) = ":")

\* a kept piece read as <<key, value>> around its first ':'
C12_Pair(seg) ==
    LET at == CHOOSE k \in 1..Len(seg) :
                  Ch(seg, k) = ":" /\ \A h \in 1..(k - 1) : Ch(seg, h) /= ":"
    IN  <<Trim(SubSeq(seg, 1, at - 1)), Trim(SubSeq(seg, at + 1, Len(seg)))>>

\* C12: the result of splitLabels has one entry per key of the kept
\* pieces and no other key, and the value of a key is the value of the
\* last kept piece with that key.
C12_SplitLabels ==
    upc = "split" =>
        LET kept == C12_Kept(Trim(urow[5]))
        IN  /\ \A i, j \in 1..Len(ulabels) : ulabels[i][1] = ulabels[j][1] => i = j
            /\ \A i \in 1..Len(ulabels) :
                  \E n \in 1..Len(kept) :
                      /\ C12_Pair(kept[n]) = ulabels[i]
                      /\ \A m \in (n + 1)..Len(kept) :
                            C12_Pair(kept[m])[1] /= ulabels[i][1]
            /\ \A n \in 1..Len(kept) :
                  \E i \in 1..Len(ulabels) : ulabels[i][1] = C12_Pair(kept[n])[1]

\* a cell whose one piece has two ':' was split at the first
C12_Witness ==
    /\ upc = "split"
    /\ Trim(urow[5]) = "k:v:Ab"
    /\ ulabels = <<<<"k", "v:Ab">>>>


-----------------------------------------------------------------------------
(* C13: the name of a group document *)

\* the label values of a group-key text, one per key in the order in which
\* the keys first occur, each the value of the last piece with that key
C13_Values(text) ==
    LET kept   == C12_Kept(text)
        firsts == SelectSeq([n \in 1..Len(kept) |-> n],
                            LAMBDA n : \A m \in 1..(n - 1) :
                                           C12_Pair(kept[m])[1] /= C12_Pair(kept[n])[1])
    IN  [i \in 1..Len(firsts) |->
            C12_Pair(kept[CHOOSE m \in 1..Len(kept) :
                /\ C12_Pair(kept[m])[1] = C12_Pair(kept[firsts[i]])[1]
                /\ \A h \in (m + 1)..Len(kept) :
                      C12_Pair(kept[h])[1] /= C12_Pair(kept[m])[1]])[2]]

\* the name of the document of the data row k
C13_Name(k) == ObjGet(ObjGet(RowDoc(k), "metadata"), "name")

\* C13 as stated: the name of the document of a row's group is the
\* namespace, '-', and the label values of the group key joined with '-';
\* it is '<namespace>-default' exactly when the group key has no labels.
C13_DefaultExactlyWithoutLabels ==
    allDocs /= <<>> =>
        \A j \in 1..Len(DataRows) :
            LET values == C13_Values(CellText(DataRows[j], 3))
            IN  /\ Len(values) > 0 =>
                      C13_Name(DataRows[j]) = parsed.namespace \o "-" \o Join(values, "-")
                /\ C13_Name(DataRows[j]) = parsed.namespace \o "-default" <=> Len(values) = 0

\* C13 amended: the same, with '<namespace>-default' the name whenever the
\* group key has no labels.
C13_DefaultWithoutLabels ==
    allDocs /= <<>> =>
        \A j \in 1..Len(DataRows) :
            LET values == C13_Values(CellText(DataRows[j], 3))
            IN  /\ Len(values) > 0 =>
                      C13_Name(DataRows[j]) = parsed.namespace \o "-" \o Join(values, "-")
                /\ Len(values) = 0 => C13_Name(DataRows[j]) = parsed.namespace \o "-default"

\* documents were assembled for a group key with two labels and for a
\* group key without labels
C13_Witness ==
    /\ allDocs /= <<>>
    /\ Len(DataRows) = 2
    /\ CellText(DataRows[1], 3) = "app:web,tier:db"
    /\ C13_Name(DataRows[1]) = "billing-web-db"
    /\ CellText(DataRows[2], 3) = "7"
    /\ C13_Name(DataRows[2]) = "billing-default"


-----------------------------------------------------------------------------
(* C14: the fields of a group document *)

\* the data rows of the group of the data row k
C14_GroupRows(k) ==
    {h \in NonBlankRows : RowGroupKey(sheet.rows[h]) = RowGroupKey(sheet.rows[k])}

\* the labels of a group-key text as a set of <<key, value>>
C14_Labels(text) ==
    LET kept == C12_Kept(text)
    IN  {C12_Pair(kept[n]) : n \in {n \in 1..Len(kept) :
            \A m \in (n + 1)..Len(kept) : C12_Pair(kept[m])[1] /= C12_Pair(kept[n])[1]}}

\* C14: in the document of every group, spec.ingress is present exactly
\* when the group has an ingress row and spec.egress exactly when it has an
\* egress row, a present list is not empty, and endpointSelector is the
\* empty object when the group key has no labels and {matchLabels: labels}
\* otherwise.
C14_DocumentFields ==
    allDocs /= <<>> =>
        \A k \in NonBlankRows :
            LET sp       == ObjGet(RowDoc(k), "spec")
                selector == ObjGet(sp, "endpointSelector")
                labels   == C14_Labels(CellText(k, 3))
            IN  /\ ObjHas(sp, "ingress") <=> \E h \in C14_GroupRows(k) : RowIsIngress(h)
                /\ ObjHas(sp, "egress") <=> \E h \in C14_GroupRows(k) : RowIsEgress(h)
                /\ ObjHas(sp, "ingress") => Len(ObjGet(sp, "ingress")) > 0
                /\ ObjHas(sp, "egress") => Len(ObjGet(sp, "egress")) > 0
                /\ labels = {} <=> selector = <<>>
                /\ labels /= {} =>
                      /\ ObjKeys(selector) = <<"matchLabels">>
                      /\ LET ml == ObjGet(selector, "matchLabels")
                         IN  /\ {ml[i] : i \in 1..Len(ml)} = labels
                             /\ Len(ml) = Cardinality(labels)


-----------------------------------------------------------------------------
(* C15: rows, groups and fragments *)

\* the number of fragments in the ingress and egress lists of the documents
RECURSIVE C15_Fragments(_)
C15_Fragments(docs) ==
    IF docs = <<>> THEN 0
    ELSE Len(SpecList(Head(docs), "ingress")) + Len(SpecList(Head(docs), "egress"))
            + C15_Fragments(Tail(docs))

\* the places <<group, position>> at which the groups hold the row number n
C15_Places(n) ==
    {<<i, p>> \in (1..Len(parsed.groups)) \X (1..Len(parsed.entries)) :
        p <= Len(parsed.groups[i][2]) /\ parsed.groups[i][2][p].rowNum = n}

\* C15: every data row is one extracted row; it is held by exactly one
\* group, the one named by its group-key cell; every group holds its rows
\* in sheet order; there is one document per group, and the ingress and
\* egress lists of the group documents hold as many fragments as there are
\* rows.
C15_OneFragmentPerRow ==
    allDocs /= <<>> =>
        /\ Len(parsed.entries) = Len(DataRows)
        /\ \A j \in 1..Len(DataRows) :
              /\ parsed.entries[j].rowNum = RowPosition(DataRows[j])
              /\ Cardinality(C15_Places(RowPosition(DataRows[j]))) = 1
              /\ \A pl \in C15_Places(RowPosition(DataRows[j])) :
                    parsed.groups[pl[1]][1] = RowGroupKey(sheet.rows[DataRows[j]])
        /\ \A i \in 1..Len(parsed.groups) :
              \A p, q \in 1..Len(parsed.groups[i][2]) :
                  p < q => parsed.groups[i][2][p].rowNum < parsed.groups[i][2][q].rowNum
        /\ Len(GroupDocs) = Len(parsed.groups)
        /\ C15_Fragments(GroupDocs) = Len(DataRows)

\* documents were assembled for two rows of two groups, one of them with a
\* direction cell that holds no direction
C15_Witness ==
    /\ allDocs /= <<>>
    /\ Len(DataRows) = 2
    /\ Len(GroupDocs) = 2
    /\ CellText(DataRows[2], 4) = ""
    /\ C15_Fragments(GroupDocs) = 2

-----------------------------------------------------------------------------
(* C16: a row without a direction *)

\* C16: the fragment of a row whose direction cell yields the empty string
\* is in neither list of its group's document: the ingress list holds the
\* fragments of the group's ingress rows and the egress list those of its
\* egress rows, and no more.
C16_InNeitherList ==
    allDocs /= <<>> =>
        \A k \in NonBlankRows :
            CellText(k, 4) = "" =>
                /\ Len(SpecList(RowDoc(k), "ingress"))
                      = Cardinality({h \in C14_GroupRows(k) : RowIsIngress(h)})
                /\ Len(SpecList(RowDoc(k), "egress"))
                      = Cardinality({h \in C14_GroupRows(k) : RowIsEgress(h)})


-----------------------------------------------------------------------------
(* C17: the compound namespace form *)

\* the position of the first '/' of a text that has one
C17_FirstSlash(cell) ==
    CHOOSE k \in 1..Len(cell) : Ch(cell, k) = "/" /\ \A h \in 1..(k - 1) : Ch(cell, h) /= "/"

\* the labels of the fragment's Endpoints selector as a set of
\* <<key, value>>, empty when the fragment has no such selector
C17_RuleLabels ==
    UNION {LET ml == r[2][1].matchLabels IN {ml[i] : i \in 1..Len(ml)} :
              r \in {urule[i] : i \in {i \in 1..Len(urule) :
                        urule[i][1] \in {"fromEndpoints", "toEndpoints"}}}}

\* C17: for a label cell that contains '/' and does not start with
\* 'app.kubernetes.io/', the labels of the fragment are the namespace
\* label with the trimmed text before the first '/', and the labels parsed
\* from all of the text after the first '/'.
C17_WholeRemainder ==
    (/\ upc = "ruled"
     /\ udet.type = "label"
     /\ Includes(Trim(urow[5]), "/")
     /\ ~StartsWith(Trim(urow[5]), "app.kubernetes.io/"))
    => LET cell == Trim(urow[5])
           at   == C17_FirstSlash(cell)
           rest == C14_Labels(SubSeq(cell, at + 1, Len(cell)))
       IN  C17_RuleLabels
             = rest \cup (IF \E p \in rest : p[1] = "io.kubernetes.pod.namespace" THEN {}
                          ELSE {<<"io.kubernetes.pod.namespace", Trim(SubSeq(cell, 1, at - 1))>>})


-----------------------------------------------------------------------------
(* C18: address-like cells that are not dotted quads *)

\* an address-like cell that is not made of full dotted quads: every item
\* starts with a digit and has a '.', and some item is neither a dotted
\* quad nor a dotted quad with a prefix length
C18_Malformed(v) ==
    /\ Len(C1_Items(v)) > 0
    /\ \A i \in 1..Len(C1_Items(v)) :
          Ch(C1_Items(v)[i], 1) \in Digits /\ Includes(C1_Items(v)[i], ".")
    /\ \E i \in 1..Len(C1_Items(v)) :
          ~C1_BareQuad(C1_Items(v)[i]) /\ ~C1_PrefixedQuad(C1_Items(v)[i])

\* the fragment has no CIDR and no FQDN selector
C18_NoAddressSelector ==
    \A i \in 1..Len(urule) : urule[i][1] \notin {"fromCIDR", "toCIDR", "fromFQDNs", "toFQDNs"}

\* C18 as stated: every such cell is classified label and gives the
\* fragment neither a CIDR nor an FQDN selector.
C18_AlwaysLabel ==
    (upc = "ruled" /\ C18_Malformed(Trim(urow[5])))
    => udet.type = "label" /\ C18_NoAddressSelector

\* C18 amended: the same for the cells that contain no ASCII letter.
C18_LabelWithoutLetter ==
    (upc = "ruled" /\ C18_Malformed(Trim(urow[5])) /\ ~C1_HasLetter(Trim(urow[5])))
    => udet.type = "label" /\ C18_NoAddressSelector

\* a cell of three octets was classified label and gave no selector
C18_Witness ==
    /\ upc = "ruled"
    /\ Trim(urow[5]) = "10.0.1"
    /\ udet.type = "label"
    /\ C7_Selectors(urule) = <<>>


-----------------------------------------------------------------------------
(* C19: a stated counterpart restricts the rule *)

\* C19: the fragment of a row whose counterpart cell is not empty has
\* exactly one selector field.
C19_OneSelector ==
    (upc = "ruled" /\ Trim(urow[5]) /= "") =>
        Cardinality({i \in 1..Len(urule) : urule[i][1] \in SelectorKeys}) = 1

-----------------------------------------------------------------------------
(* C20: reported pairings agree field by field *)

\* the extracted row with the row number n
C20_Entry(n) ==
    parsed.entries[CHOOSE j \in 1..Len(parsed.entries) : parsed.entries[j].rowNum = n]

\* C20: the two rows of every reported pairing have the same direction,
\* the same source cell, the same destination cell, the same port cell and
\* the same protocol (upper-cased, empty read as ANY), and the first row
\* is the earlier one.
C20_PairingsAgree ==
    \A d \in 1..Len(dups) :
        /\ dups[d][1] < dups[d][2]
        /\ \A f \in 1..5 :
              C6_Signature(C20_Entry(dups[d][1]))[f] = C6_Signature(C20_Entry(dups[d][2]))[f]

=============================================================================
